---- MODULE Spec2Model ----
(***************************************************************************)
(* uSpherum ESC console client (esc_cli/cli.py): the persistent result     *)
(* cache, the filter/sort engine, the command dispatcher, the control      *)
(* channel session and the interactive shell.                              *)
(*                                                                         *)
(* Python values are records tagged by the field t:                        *)
(*   [t |-> "None"]                      None                              *)
(*   [t |-> "list", items |-> <<..>>]    a JSON array / python list        *)
(*   [t |-> "dict", keys |-> <<..>>]     a JSON object that is not a line  *)
(*   [t |-> "line", id, name, ...]       a lighting line record            *)
(*   [t |-> "str",  s |-> ".."]          a string                          *)
(*   [t |-> "tab",  headers, rows]       the text tabulate() renders       *)
(* Strings the code takes apart (ids, names, filters) are sequences of     *)
(* one-character strings.                                                  *)
(***************************************************************************)
EXTENDS Integers, Sequences, FiniteSets, TLC

VARIABLES
    store,        \* the file .cli-cache
    interactive,  \* TRUE while start_interactive's loop is running
    pc,           \* position of the running ll cmd handler
    cmd,          \* the ll cmd in progress: lines read, action, value
    ws,           \* events of the current Control Channel session
    last,         \* what the last input line / command did
    looked,       \* the lines the last successful ll list / ll status showed
    commands,     \* determine_command: the command table
    arguments,    \* determine_command: the parsed arguments
    invoked,      \* determine_command / dispatch_command: the handler run
    cacheLog,     \* Cache.get / Cache.set: the last call and its result
    applied       \* apply_line_filters_and_sorting: the call and its result

vars == <<store, interactive, pc, cmd, ws, last, looked,
          commands, arguments, invoked, cacheLog, applied>>

-----------------------------------------------------------------------------
(* Python values *)

None == [t |-> "None"]

PyList(items) == [t |-> "list", items |-> items]

PyDict(keys) == [t |-> "dict", keys |-> keys]

PyStr(s) == [t |-> "str", s |-> s]

\* isinstance(v, (tuple, list))
IsList(v) == v.t = "list"

\* what "for x in v" yields: the items of a list, the keys of a dict
Iter(v) == IF v.t = "list" THEN v.items
           ELSE IF v.t = "dict" THEN [i \in 1..Len(v.keys) |-> PyStr(v.keys[i])]
           ELSE <<>>

\* "for x in v" raises TypeError for None
Iterable(v) == v.t \in {"list", "dict"}

-----------------------------------------------------------------------------
(* Cache: a dict pickled into the file .cli-cache *)

\* The slot names the program uses, and the slots a and b of the cache
\* exercised alone.  Two dicts with the same items are equal whatever the
\* order of insertion, so the pickled entries are listed in this order.
Slots == <<"ll", "last_choosed_ll", "last_showed_ll", "last_showed_ll_st",
           "last_choosed_llgr", "last_showed_llgr", "last_showed", "a", "b">>

\* An in-memory dict: a function from its keys to their values.
EmptyDict == [k \in {} |-> None]

DictHas(d, k) == k \in DOMAIN d

\* a slip: d.setdefault(k, v), which keeps the value k already has
DictSetDefault(d, k, v) ==
    [x \in (DOMAIN d) \cup {k} |-> IF x \in DOMAIN d THEN d[x] ELSE v]

\* d[k] = v
DictSetItem(d, k, v) ==
    [x \in (DOMAIN d) \cup {k} |-> IF x = k THEN v ELSE d[x]]

\* d.get(k, default)
DictGet(d, k, default) == IF DictHas(d, k) THEN d[k] ELSE default

\* pickle.dump(d, f): one entry (key, value) per item of d
PickleDump(d) ==
    LET keys == SelectSeq(Slots, LAMBDA k : DictHas(d, k))
    IN  [i \in 1..Len(keys) |-> [k |-> keys[i], v |-> d[keys[i]]]]

\* pickle.load(f): an empty dict, then one setitem per entry
RECURSIVE PickleLoadFrom(_, _)
PickleLoadFrom(d, entries) ==
    IF entries = <<>> THEN d
    ELSE PickleLoadFrom(DictSetItem(d, Head(entries).k, Head(entries).v),
                        Tail(entries))

PickleLoad(entries) == PickleLoadFrom(EmptyDict, entries)

\* The file: absent, unreadable by pickle, or a pickled dict.
NoFile == [st |-> "missing", entries |-> <<>>]

CorruptFile == [st |-> "corrupt", entries |-> <<>>]

File(entries) == [st |-> "ok", entries |-> entries]

\* Cache._current_cache: exc is the exception pickle.load raises, if any
current_cache(f) ==
    IF f.st = "missing" THEN [exc |-> "none", d |-> EmptyDict]
    ELSE IF f.st = "corrupt" THEN [exc |-> "UnpicklingError", d |-> EmptyDict]
    ELSE [exc |-> "none", d |-> PickleLoad(f.entries)]

\* Cache.get(key, default)
CacheGet(f, key, default) ==
    LET c == current_cache(f)
    IN  IF c.exc # "none" THEN [exc |-> c.exc, val |-> None]
        ELSE [exc |-> "none", val |-> DictGet(c.d, key, default)]

\* Cache.set(key, value): the file it leaves behind
CacheSet(f, key, value) ==
    LET c == current_cache(f)
    IN  IF c.exc # "none" THEN [exc |-> c.exc, file |-> f]
        ELSE [exc |-> "none",
              file |-> File(PickleDump(DictSetItem(c.d, key, value)))]

-----------------------------------------------------------------------------
(* Strings taken apart by the code *)

\* the value None of an optional argument (args['--filter'] is None)
NoArg == <<"None">>

LowerChar(c) ==
    CASE c = "Y" -> "y" [] c = "T" -> "t" [] c = "F" -> "f"
      [] c = "O" -> "o" [] c = "N" -> "n" [] OTHER -> c

\* str.lower()
Lower(s) == [i \in 1..Len(s) |-> LowerChar(s[i])]

\* str.split(sep): the parts between the separators
RECURSIVE SplitFrom(_, _, _)
SplitFrom(s, sep, cur) ==
    IF s = <<>> THEN <<cur>>
    ELSE IF Head(s) = sep THEN <<cur>> \o SplitFrom(Tail(s), sep, <<>>)
    ELSE SplitFrom(Tail(s), sep, Append(cur, Head(s)))

Split(s, sep) == SplitFrom(s, sep, <<>>)

\* s.find(sub) != -1
Find(s, sub) ==
    \E i \in 0..(Len(s) - Len(sub)) : SubSeq(s, i + 1, i + Len(sub)) = sub

\* s.startswith(prefix)
StartsWith(s, prefix) ==
    Len(prefix) <= Len(s) /\ SubSeq(s, 1, Len(prefix)) = prefix

DigitVal(c) ==
    CASE c = "0" -> 0 [] c = "1" -> 1 [] c = "2" -> 2 [] c = "3" -> 3
      [] c = "4" -> 4 [] c = "5" -> 5 [] c = "6" -> 6 [] c = "7" -> 7
      [] c = "8" -> 8 [] c = "9" -> 9 [] c = "a" -> 10 [] c = "b" -> 11
      [] c = "c" -> 12 [] c = "d" -> 13 [] c = "e" -> 14 [] c = "f" -> 15
      [] OTHER -> -1

RECURSIVE NumVal(_, _, _)
NumVal(s, base, acc) ==
    IF s = <<>> THEN acc
    ELSE NumVal(Tail(s), base, acc * base + DigitVal(Head(s)))

\* int(s) raises ValueError unless s is a decimal numeral
IsInt(s) == s # <<>> /\ \A i \in 1..Len(s) : DigitVal(s[i]) \in 0..9

IntOf(s) == NumVal(s, 10, 0)

\* UUID(s): the integer value of the hexadecimal identifier
UUID(s) == NumVal(s, 16, 0)

-----------------------------------------------------------------------------
(* Filter/sort engine *)

\* the predicate line 209-217 builds from the filter: its kind
FilterKind(req_filter) ==
    IF req_filter = NoArg THEN "true"
    ELSE LET parts == Split(req_filter, ":")
         IN  IF Len(parts) # 2 THEN "ValueError: unpack"
             ELSE IF parts[1] \in {<<"i", "d">>, <<"n", "a", "m", "e">>}
                  THEN "sub"
             ELSE IF parts[1] = <<"m">> /\ Lower(parts[2]) \in {<<"t">>, <<"f">>}
                  THEN "m"
             ELSE "true"

\* a slip: the flag is compared with True whatever the expression says
ll_filter_flag_set(line, req_filter) ==
    LET kind == FilterKind(req_filter)
    IN  IF kind = "m" THEN (IF line.in_maintenance THEN "T" ELSE "F")
        ELSE "T"

\* ll_filter(line) before the group wrapper: "T", "F" or the exception
ll_filter(line, req_filter) ==
    LET kind == FilterKind(req_filter)
        parts == Split(req_filter, ":")
    IN  IF kind = "true" THEN "T"
        ELSE IF line.t # "line" THEN "TypeError"
        ELSE IF kind = "sub"
             THEN IF Find(IF parts[1] = <<"i", "d">> THEN line.id ELSE line.name,
                          parts[2])
                  THEN "T" ELSE "F"
        ELSE IF line.in_maintenance = (Lower(parts[2]) = <<"t">>)
             THEN "T" ELSE "F"

\* a slip: "or" for the "and" of line 222
ll_group_filter_or(line, group_id, req_filter) ==
    LET kind == FilterKind(req_filter)
        parts == Split(req_filter, ":")
        f == IF kind = "true" THEN TRUE
             ELSE IF kind = "sub"
                  THEN Find(IF parts[1] = <<"i", "d">> THEN line.id
                            ELSE line.name, parts[2])
             ELSE line.in_maintenance = (Lower(parts[2]) = <<"t">>)
    IN  IF group_id = NoArg THEN (IF f THEN "T" ELSE "F")
        ELSE IF f \/ IntOf(group_id) \in line.groups THEN "T" ELSE "F"

\* ll_group_filter(ll_filter)(line)
ll_group_filter(line, group_id, req_filter) ==
    LET f == ll_filter(line, req_filter)
    IN  IF group_id = NoArg \/ f # "T" THEN f
        ELSE IF ~IsInt(group_id) THEN "ValueError: int()"
        ELSE IF line.t # "line" THEN "TypeError"
        ELSE IF IntOf(group_id) \in line.groups THEN "T" ELSE "F"

\* a slip: the key is the value of the field, l[sort_by], for every field
SortKeyOfField(l, sort_by) ==
    IF sort_by = <<"i", "d">> THEN UUID(l.id) ELSE UUID(l.name)

\* the sort key of line 230; -1 stands for the constant key sort_by
SortKey(l, sort_by) == IF sort_by = <<"i", "d">> THEN UUID(l.id) ELSE -1

\* insert x after the last element whose key is <= x's (the sort is stable)
RECURSIVE Insert(_, _, _)
Insert(sortedSeq, x, sort_by) ==
    IF sortedSeq = <<>> THEN <<x>>
    ELSE IF SortKey(Head(sortedSeq), sort_by) <= SortKey(x, sort_by)
         THEN <<Head(sortedSeq)>> \o Insert(Tail(sortedSeq), x, sort_by)
         ELSE <<x>> \o sortedSeq

RECURSIVE Sorted(_, _)
Sorted(lines, sort_by) ==
    IF lines = <<>> THEN <<>>
    ELSE Insert(Sorted(SubSeq(lines, 1, Len(lines) - 1), sort_by),
                lines[Len(lines)], sort_by)

\* the comprehension of line 232: the lines kept, or the first exception
RECURSIVE Keep(_, _, _)
Keep(lines, group_id, req_filter) ==
    IF lines = <<>> THEN [exc |-> "none", val |-> <<>>]
    ELSE LET r == ll_group_filter(Head(lines), group_id, req_filter)
             rest == Keep(Tail(lines), group_id, req_filter)
         IN  IF r \notin {"T", "F"} THEN [exc |-> r, val |-> <<>>]
             ELSE IF rest.exc # "none" THEN rest
             ELSE [exc |-> "none",
                   val |-> IF r = "T" THEN <<Head(lines)>> \o rest.val
                           ELSE rest.val]

\* apply_line_filters_and_sorting(lines, sort_by, group_id, req_filter);
\* lines is any python value, the result a sequence or an exception
apply_line_filters_and_sorting(lines, sort_by, group_id, req_filter) ==
    IF FilterKind(req_filter) = "ValueError: unpack"
    THEN [exc |-> "ValueError: unpack", val |-> <<>>]
    ELSE IF ~Iterable(lines) THEN [exc |-> "TypeError", val |-> <<>>]
    ELSE IF sort_by = <<"i", "d">> /\ \E i \in 1..Len(Iter(lines)) : Iter(lines)[i].t # "line"
         THEN [exc |-> "TypeError", val |-> <<>>]
    ELSE Keep(Sorted(Iter(lines), sort_by), group_id, req_filter)

-----------------------------------------------------------------------------
(* What the backend answers *)

\* requests.get raises (no route to the backend)
ConnectionError == [t |-> "ConnectionError"]

LineA == [t |-> "line", id |-> <<"2", "1">>, name |-> <<"a">>, lat |-> 0,
          lng |-> 0, in_maintenance |-> TRUE, groups |-> {1}]

LineB == [t |-> "line", id |-> <<"1", "1">>, name |-> <<"b">>, lat |-> 0,
          lng |-> 0, in_maintenance |-> FALSE, groups |-> {1, 2}]

\* an error object such as {"detail": "..."}
ErrorObject == PyDict(<<"detail">>)

\* api/v1/lighting-line
LinesAnswers == {PyList(<<LineA, LineB>>), ErrorObject, ConnectionError}

\* a line state record; el_params is "absent" (no key), "null" (JSON null),
\* "val_null" ({"val": null}) or "val" ({"val": {"pwr_actv": [..], "eap": [..]}})
LineState(line, relay, el_params) ==
    [t |-> "state", line_id |-> line.id, relay |-> relay,
     ctl_mode |-> "manual", el_params |-> el_params]

\* api/v1/lighting-line-state
StatusAnswers ==
    {PyList(<<LineState(LineA, "on", "val"), LineState(LineB, "off", "val_null")>>),
     PyList(<<LineState(LineA, "on", "null")>>),
     ErrorObject, ConnectionError}

Group(group_id) ==
    [t |-> "group", group_id |-> group_id, name |-> <<"g">>,
     child_groups |-> {}, lines |-> {}]

\* api/v1/lighting-line-group
GroupsAnswers == {PyList(<<Group(2), Group(1)>>), ErrorObject, ConnectionError}

-----------------------------------------------------------------------------
(* Query handlers.  Each takes the cache file, the parsed options and the   *)
(* backend's answers and yields the exception raised ("none" if the handler *)
(* returns), the cache file left behind and the value printed.              *)

Result(exc, file, out) == [exc |-> exc, file |-> file, out |-> out]

\* tabulate(rows, headers=...)
tabulate(rows, headers) == [t |-> "tab", headers |-> headers, rows |-> rows]

\* args['--sort'] or 'id'
SortBy(sort) == IF sort = NoArg \/ sort = <<>> THEN <<"i", "d">> ELSE sort

\* a slip: the generic slot is forgotten
ShowTabFamily(f, family, tab) == CacheSet(f, family, tab).file

\* the four Cache.set calls of a handler that has rendered tab
ShowTab(f, family, tab) ==
    CacheSet(CacheSet(f, family, tab).file, "last_showed", tab).file

ll_list(f, opt, lines) ==
    IF lines = ConnectionError THEN Result("ConnectionError", f, None)
    ELSE IF ~IsList(lines) THEN Result("none", f, lines)
    ELSE LET s1 == CacheSet(f, "ll", lines)
             r  == apply_line_filters_and_sorting(
                       lines, SortBy(opt.sort), opt.group, opt.filter)
             s2 == CacheSet(s1.file, "last_choosed_ll", PyList(r.val))
             tab == tabulate(r.val, "ll")
         IN  IF s1.exc # "none" THEN Result(s1.exc, f, None)
             ELSE IF r.exc # "none" THEN Result(r.exc, s1.file, None)
             ELSE Result("none", ShowTab(s2.file, "last_showed_ll", tab), tab)

\* lines_status_by_id.get(line['id'], {}): the last record of that line
RECURSIVE StateById(_, _)
StateById(states, id) ==
    IF states = <<>> THEN None
    ELSE IF states[Len(states)].line_id = id THEN states[Len(states)]
    ELSE StateById(SubSeq(states, 1, Len(states) - 1), id)

\* one pass of the loop of lines 277-295: the row of the table, or the
\* exception ("del line['lat']" on a string, ".get" on a null el_params)
StatusRow(line, states) ==
    IF line.t # "line" THEN [exc |-> "TypeError", row |-> None]
    ELSE LET st == StateById(states, line.id)
         IN  IF st # None /\ st.el_params = "null"
             THEN [exc |-> "AttributeError", row |-> None]
             ELSE [exc |-> "none",
                   row |-> [t |-> "state_row", id |-> line.id,
                            name |-> line.name,
                            in_maintenance |-> line.in_maintenance,
                            relay |-> IF st = None THEN "-" ELSE st.relay,
                            ctl_mode |-> IF st = None THEN "-" ELSE st.ctl_mode,
                            pwr_actv |-> IF st # None /\ st.el_params = "val"
                                         THEN "rounded" ELSE "-",
                            eap |-> IF st # None /\ st.el_params = "val"
                                    THEN "rounded" ELSE "-"]]

RECURSIVE StatusRows(_, _)
StatusRows(lines, states) ==
    IF lines = <<>> THEN [exc |-> "none", rows |-> <<>>]
    ELSE LET r == StatusRow(Head(lines), states)
             rest == StatusRows(Tail(lines), states)
         IN  IF r.exc # "none" THEN [exc |-> r.exc, rows |-> <<>>]
             ELSE IF rest.exc # "none" THEN rest
             ELSE [exc |-> "none", rows |-> <<r.row>> \o rest.rows]

ll_status(f, opt, linesAnswer, lines_status) ==
    LET c == CacheGet(f, "ll", None)
        lines == IF c.val = None THEN linesAnswer ELSE c.val
        s1 == CacheSet(f, "ll", lines)
        r  == apply_line_filters_and_sorting(
                  lines, SortBy(opt.sort), opt.group, opt.filter)
        s2 == CacheSet(s1.file, "last_choosed_ll", PyList(r.val))
        rows == StatusRows(r.val, lines_status.items)
        tab == tabulate(rows.rows, "ll_st")
    IN  IF c.exc # "none" THEN Result(c.exc, f, None)
        ELSE IF lines = ConnectionError THEN Result("ConnectionError", f, None)
        ELSE IF lines_status = ConnectionError
             THEN Result("ConnectionError", f, None)
        \* line 264 subscripts every element of the answer with 'line_id'
        ELSE IF ~Iterable(lines_status)
                \/ \E i \in 1..Len(Iter(lines_status)) :
                       Iter(lines_status)[i].t # "state"
             THEN Result("TypeError", f, None)
        ELSE IF ~IsList(lines_status) THEN Result("none", f, lines_status)
        ELSE IF r.exc # "none" THEN Result(r.exc, s1.file, None)
        ELSE IF rows.exc # "none" THEN Result(rows.exc, s2.file, None)
        ELSE Result("none", ShowTab(s2.file, "last_showed_ll_st", tab), tab)

\* sorted(groups, key=lambda g: g['group_id'])
RECURSIVE SortedGroups(_)
SortedGroups(groups) ==
    IF groups = <<>> THEN <<>>
    ELSE LET g == groups[Len(groups)]
             before == SortedGroups(SubSeq(groups, 1, Len(groups) - 1))
             le == SelectSeq(before, LAMBDA x : x.group_id <= g.group_id)
             gt == SelectSeq(before, LAMBDA x : x.group_id > g.group_id)
         IN  le \o <<g>> \o gt

GroupRow(g) == [t |-> "group_row", group_id |-> g.group_id, name |-> g.name,
                child_groups |-> g.child_groups]

ll_groups_list(f, groups) ==
    IF groups = ConnectionError THEN Result("ConnectionError", f, None)
    ELSE IF ~IsList(groups) THEN Result("none", f, groups)
    ELSE LET sorted == SortedGroups(groups.items)
             s1 == CacheSet(f, "last_choosed_llgr", PyList(sorted))
             tab == tabulate([i \in 1..Len(sorted) |-> GroupRow(sorted[i])],
                             "llgr")
         IN  IF s1.exc # "none" THEN Result(s1.exc, f, None)
             ELSE Result("none", ShowTab(s1.file, "last_showed_llgr", tab), tab)

\* _get_line_state(line_id): exactly one record of the answer must match
get_line_state(lines_status, line_id) ==
    IF lines_status = ConnectionError THEN "ConnectionError"
    ELSE IF ~Iterable(lines_status)
            \/ \E i \in 1..Len(Iter(lines_status)) :
                   Iter(lines_status)[i].t # "state"
         THEN "TypeError"
    ELSE IF Cardinality({i \in 1..Len(lines_status.items) :
                           lines_status.items[i].line_id = line_id}) # 1
         THEN "ValueError: unpack"
    ELSE "none"

\* the lines ll_show chooses from (line 334); none when it does not get
\* that far
Chosen(f, id_, linesAnswer) ==
    LET c == CacheGet(f, "ll", None)
        lines == IF c.val = None THEN linesAnswer ELSE c.val
    IN  IF c.exc = "none" /\ lines # ConnectionError /\ IsList(lines)
        THEN SelectSeq(lines.items, LAMBDA l : StartsWith(l.id, id_))
        ELSE <<>>

ll_show(f, id_, linesAnswer, lineAnswer, lines_status) ==
    LET c == CacheGet(f, "ll", None)
        lines == IF c.val = None THEN linesAnswer ELSE c.val
        found == Chosen(f, id_, linesAnswer)
        st == get_line_state(lines_status, found[1].id)
    IN  IF c.exc # "none" THEN Result(c.exc, f, None)
        ELSE IF lines = ConnectionError THEN Result("ConnectionError", f, None)
        ELSE IF ~IsList(lines) THEN Result("none", f, None)
        \* choose, *_ = ...: at least one line must match
        ELSE IF found = <<>> THEN Result("ValueError: unpack", f, None)
        ELSE IF lineAnswer = ConnectionError
             THEN Result("ConnectionError", f, None)
        \* line.update(...) needs a mapping
        ELSE IF lineAnswer.t \notin {"line", "dict"}
             THEN Result("AttributeError", f, None)
        ELSE IF st # "none" THEN Result(st, f, None)
        ELSE Result("none", f, lineAnswer)

NothingToShow == PyStr("Nothing to show")

\* the cache slot show_last prints for each value of <show>
ShowSlot(show) ==
    CASE show = <<"_">> -> "last_showed"
      [] show = <<"l", "l">> -> "last_showed_ll"
      [] show = <<"l", "l", "_", "s", "t">> -> "last_showed_ll_st"
      [] show = <<"l", "l", "g", "r">> -> "last_showed_llgr"
      [] OTHER -> "none"

show_last(f, show) ==
    LET c == CacheGet(f, ShowSlot(show), NothingToShow)
    IN  IF ShowSlot(show) = "none" THEN Result("none", f, None)
        ELSE IF c.exc # "none" THEN Result(c.exc, f, None)
        ELSE Result("none", f, c.val)

\* the configuration file is not part of the state: both handlers leave
\* the cache alone
config_list(f) == Result("none", f, PyStr("config"))

config_set(f) == Result("none", f, None)

-----------------------------------------------------------------------------
(* Command dispatcher *)

PyBool(b) == [t |-> "bool", b |-> b]

\* bool(v)
Truthy(v) ==
    CASE v.t = "bool" -> v.b
      [] v.t = "str" -> v.s # ""
      [] OTHER -> FALSE

\* arguments.get(token, False)
ArgGet(args, token) ==
    IF token \in DOMAIN args THEN args[token] ELSE PyBool(FALSE)

\* all(arguments.get(token, False) for token in cmd.split('.'))
Matches(name, args) ==
    LET tokens == Split(name, ".")
    IN  \A i \in 1..Len(tokens) : Truthy(ArgGet(args, tokens[i]))

\* a slip: the loop does not return at the first match, the last one wins
RECURSIVE determine_last(_, _)
determine_last(cmds, args) ==
    IF cmds = <<>> THEN "None"
    ELSE IF Matches(cmds[Len(cmds)].name, args) THEN cmds[Len(cmds)].handler
    ELSE determine_last(SubSeq(cmds, 1, Len(cmds) - 1), args)

\* determine_command(commands, arguments): the handler, or "None" when the
\* loop ends without a return
RECURSIVE determine_command(_, _)
determine_command(cmds, args) ==
    IF cmds = <<>> THEN "None"
    ELSE IF Matches(Head(cmds).name, args) THEN Head(cmds).handler
    ELSE determine_command(Tail(cmds), args)

Command(name, handler) == [name |-> name, handler |-> handler]

t_config == <<"c", "o", "n", "f", "i", "g">>
t_list == <<"l", "i", "s", "t">>
t_set == <<"s", "e", "t">>
t_ll == <<"l", "l">>
t_status == <<"s", "t", "a", "t", "u", "s">>
t_show == <<"s", "h", "o", "w">>
t_add == <<"a", "d", "d">>
t_cmd == <<"c", "m", "d">>
t_llgr == <<"l", "l", "g", "r">>

Tokens == {t_config, t_list, t_set, t_ll, t_status, t_show, t_add, t_cmd,
           t_llgr}

\* the table dispatch_command builds (lines 462-471)
CommandTable ==
    << Command(t_config \o <<".">> \o t_list, "config_list"),
       Command(t_config \o <<".">> \o t_set, "config_set"),
       Command(t_ll \o <<".">> \o t_list, "ll_list"),
       Command(t_ll \o <<".">> \o t_status, "ll_status"),
       Command(t_ll \o <<".">> \o t_show, "ll_show"),
       Command(t_ll \o <<".">> \o t_cmd, "ll_cmd"),
       Command(t_llgr \o <<".">> \o t_list, "ll_groups_list"),
       Command(t_show, "show_last") >>

\* what docopt returns for one usage pattern: the command words of the
\* pattern are True, the others False, and the options carry their values
NoOpt == [sort |-> NoArg, filter |-> NoArg, group |-> NoArg, id |-> NoArg,
          show |-> NoArg, relay |-> NoArg, mode |-> NoArg]

Parsed(words, opt) ==
    [flags |-> [k \in Tokens |-> PyBool(k \in words)], opt |-> opt]

\* --sort, --filter and --group of ll list / ll status: no option, a sort
\* field, a filter, a filter without ':', a group id that is no integer
QueryOpts ==
    {NoOpt,
     [NoOpt EXCEPT !.sort = <<"n", "a", "m", "e">>],
     [NoOpt EXCEPT !.filter = <<"m", ":", "t">>],
     [NoOpt EXCEPT !.filter = <<"m", "t">>],
     [NoOpt EXCEPT !.group = <<"x">>]}

Ids == {<<"2">>, <<"9">>}

Shows == {<<"_">>, <<"l", "l">>, <<"l", "l", "_", "s", "t">>,
          <<"l", "l", "g", "r">>}

Relays == {<<"O", "N">>, <<"u", "p">>}

Modes == {<<"m", "a", "n", "u", "a", "l">>, <<"a", "u", "t", "o">>}

\* the argument dictionaries of the usage patterns (lines 5-14)
Argv ==
    {Parsed({t_config, t_list}, NoOpt), Parsed({t_config, t_set}, NoOpt),
     Parsed({t_ll, t_add}, NoOpt), Parsed({t_llgr, t_list}, NoOpt),
     Parsed({}, NoOpt)}
    \cup {Parsed({t_ll, t_list}, o) : o \in QueryOpts}
    \cup {Parsed({t_ll, t_status}, o) : o \in QueryOpts}
    \cup {Parsed({t_ll, t_show}, [NoOpt EXCEPT !.id = i]) : i \in Ids}
    \cup {Parsed({t_ll, t_cmd}, [NoOpt EXCEPT !.relay = r]) : r \in Relays}
    \cup {Parsed({t_ll, t_cmd}, [NoOpt EXCEPT !.mode = m]) : m \in Modes}
    \cup {Parsed({t_show}, [NoOpt EXCEPT !.show = w]) : w \in Shows}

\* dispatch_command, line 473: the argument dictionaries routed to each
\* handler ("None": to none)
Route ==
    [h \in {CommandTable[i].handler : i \in 1..Len(CommandTable)} \cup {"None"}
       |-> {a \in Argv : determine_command(CommandTable, a.flags) = h}]

\* the argument dictionaries dispatch_command routes to handler h
ArgvOf(h) == Route[h]

-----------------------------------------------------------------------------
(* Control Channel session *)

Event(ev) == [ev |-> ev]

Sent(msg) == [ev |-> "send", msg |-> msg]

\* the message _auth sends (lines 356-362)
AuthReq == [proto |-> "authReq"]

\* line['id'] for line in lines raises TypeError unless every element is a
\* mapping
ObjectsOk(lines) ==
    Iterable(lines) /\ \A i \in 1..Len(Iter(lines)) : Iter(lines)[i].t = "line"

\* the message lines_relay_cmd sends (lines 373-387)
RelayMsg(lines, relay_state) ==
    [proto |-> "objSendCtlCmdReq",
     cmd |-> IF relay_state = <<"o", "n">> THEN "relayEnable" ELSE "relayDisable",
     objects |-> [i \in 1..Len(lines.items) |->
                     [id |-> lines.items[i].id, type |-> "line"]]]

\* the message lines_mode_cmd sends (lines 397-410)
ModeMsg(lines, mode) ==
    [proto |-> "setCtlModeReq",
     objects |-> [i \in 1..Len(lines.items) |->
                     [id |-> lines.items[i].id, type |-> "line", mode |-> mode]]]

\* a slip: the asserts are gone, every value goes through
ValueAny(action, value) == TRUE

\* the asserts of lines 368 and 392
ValueOk(action, value) ==
    IF action = "relay" THEN Lower(value) \in {<<"o", "n">>, <<"o", "f", "f">>}
    ELSE value \in {<<"a", "u", "t", "o", ":", "s", "c", "h">>,
                    <<"m", "a", "n", "u", "a", "l">>}

CmdMsg(c) ==
    IF c.action = "relay" THEN RelayMsg(c.lines, Lower(c.value))
    ELSE ModeMsg(c.lines, c.value)

NoCmd == [lines |-> None, action |-> "-", value |-> NoArg, resp |-> NoArg,
          exc |-> "none"]

\* what the user types at the [y/N] prompt
Answers == {<<"Y">>, <<"n">>, <<"y", "e", "s">>}

\* what ws.recv() brings: a JSON reply, text json.loads rejects, or the
\* connection dropping
Replies == {"json", "not_json", "dropped"}

-----------------------------------------------------------------------------
(* The process: one command per invocation, or the interactive shell *)

\* answer is the type of the backend answer the handler tests with
\* isinstance ("None" when it asks for none); died tells that the exception
\* reached the top of the process and ended it with a traceback
Last(input, handler, exc, out) ==
    [input |-> input, handler |-> handler, exc |-> exc, out |-> out,
     answer |-> "None", died |-> exc # "none"]

Usage == PyStr("usage")

UnknownCommand == PyStr("Unknown command requested!")

NoLinesChoosed == PyStr("No lines choosed")

\* a handler run by dispatch_command returns or raises: nothing catches the
\* exception (start_interactive catches DocoptExit only), so it ends the
\* process, the shell included
Finish(handler, a, res, answer) ==
    /\ store' = res.file
    /\ last' = [Last("command", handler, res.exc, res.out)
                   EXCEPT !.answer = answer.t]
    /\ interactive' = (interactive /\ res.exc = "none")
    /\ ws' = <<>>
    /\ cmd' = NoCmd
    /\ looked' = IF handler \in {"ll_list", "ll_status"} /\ res.exc = "none"
                    /\ res.out.t = "tab"
                 THEN PyList([i \in 1..Len(res.out.rows) |-> res.out.rows[i].id])
                 ELSE looked
    /\ UNCHANGED <<pc, commands, arguments, invoked, cacheLog, applied>>

ConfigList ==
    /\ pc = "idle"
    /\ \E a \in ArgvOf("config_list") : Finish("config_list", a, config_list(store), None)

ConfigSet ==
    /\ pc = "idle"
    /\ \E a \in ArgvOf("config_set") : Finish("config_set", a, config_set(store), None)

LlList ==
    /\ pc = "idle"
    /\ \E a \in ArgvOf("ll_list"), lines \in LinesAnswers :
           Finish("ll_list", a, ll_list(store, a.opt, lines), lines)

\* ll_status and ll_show ask the backend for the lines only when the slot
\* 'll' is empty (lines 259-261, 327-331)
LinesAsked(f) ==
    IF CacheGet(f, "ll", None) = [exc |-> "none", val |-> None]
    THEN LinesAnswers ELSE {None}

\* ll_status asks for the line states (line 263) unless reading the cache
\* or fetching the lines has raised
StatusAsked(f, lines) ==
    IF CacheGet(f, "ll", None).exc # "none" \/ lines = ConnectionError
    THEN {None} ELSE StatusAnswers

LlStatus ==
    /\ pc = "idle"
    /\ \E a \in ArgvOf("ll_status"), lines \in LinesAsked(store) :
       \E lines_status \in StatusAsked(store, lines) :
           Finish("ll_status", a, ll_status(store, a.opt, lines, lines_status),
                  lines_status)

\* api/v1/lighting-line/<id>
LineAnswers == {LineA, ConnectionError}

\* ll_show asks for the line and its state (lines 335-336) once it has
\* chosen a line
DetailAsked(f, id_, lines, answers) ==
    IF Chosen(f, id_, lines) # <<>> THEN answers ELSE {None}

LlShow ==
    /\ pc = "idle"
    /\ \E a \in ArgvOf("ll_show"), lines \in LinesAsked(store) :
       \E line \in DetailAsked(store, a.opt.id, lines, LineAnswers),
          lines_status \in DetailAsked(store, a.opt.id, lines, StatusAnswers) :
           Finish("ll_show", a,
                  ll_show(store, a.opt.id, lines, line, lines_status), None)

LlGroupsList ==
    /\ pc = "idle"
    /\ \E a \in ArgvOf("ll_groups_list"), groups \in GroupsAnswers :
           Finish("ll_groups_list", a, ll_groups_list(store, groups), groups)

ShowLast ==
    /\ pc = "idle"
    /\ \E a \in ArgvOf("show_last") :
           Finish("show_last", a, show_last(store, a.opt.show), None)

\* dispatch_command, lines 476-477: no command of the table matches
Unknown ==
    /\ pc = "idle"
    /\ \E a \in ArgvOf("None") :
           \* "cli.py -i" is taken by main before dispatch_command
           /\ interactive \/ \E k \in Tokens : Truthy(a.flags[k])
           /\ Finish("None", a, Result("none", store, UnknownCommand), None)

\* docopt raises DocoptExit: the shell prints the usage and reads on, a
\* one-shot invocation exits with the usage
Malformed ==
    /\ pc = "idle"
    /\ last' = [Last("malformed", "None", "DocoptExit", Usage)
                   EXCEPT !.died = ~interactive]
    /\ ws' = <<>>
    /\ cmd' = NoCmd
    /\ UNCHANGED <<store, interactive, pc, looked, commands, arguments, invoked,
                   cacheLog, applied>>

\* main, lines 487-489
StartShell ==
    /\ pc = "idle"
    /\ ~interactive
    /\ interactive' = TRUE
    /\ last' = Last("start", "None", "none", None)
    /\ ws' = <<>>
    /\ cmd' = NoCmd
    /\ UNCHANGED <<store, pc, looked, commands, arguments, invoked, cacheLog, applied>>

\* start_interactive, lines 446-447: 'exit', 'quit' or '\q'
Quit ==
    /\ pc = "idle"
    /\ interactive
    /\ interactive' = FALSE
    /\ last' = Last("quit", "None", "none", None)
    /\ ws' = <<>>
    /\ cmd' = NoCmd
    /\ UNCHANGED <<store, pc, looked, commands, arguments, invoked, cacheLog, applied>>

\* a slip: "if lines == []" for "if lines is None"
NoSelectionIfEmpty(lines) == lines = PyList(<<>>)

\* ll_cmd, line 416
NoSelection(lines) == lines = None

\* a slip: everything but 'n' taken for a yes
AcceptedUnlessNo(resp) == Lower(resp) # <<"n">>

\* ll_cmd, lines 424 and 432
Accepted(resp) == Lower(resp) = <<"y">>

\* ll_cmd, lines 415-422 / 428-430: up to the [y/N] prompt
LlCmd ==
    /\ pc = "idle"
    /\ \E a \in ArgvOf("ll_cmd") :
         LET c == CacheGet(store, "last_choosed_ll", None)
             action == IF a.opt.relay # NoArg THEN "relay" ELSE "mode"
             value == IF a.opt.relay # NoArg THEN a.opt.relay ELSE a.opt.mode
         IN  /\ ws' = <<>>
             /\ UNCHANGED <<store, looked, commands, arguments, invoked, cacheLog, applied>>
             /\ IF c.exc # "none"
                THEN /\ last' = Last("command", "ll_cmd", c.exc, None)
                     /\ interactive' = FALSE
                     /\ cmd' = [NoCmd EXCEPT !.action = action, !.value = value]
                     /\ pc' = "idle"
                ELSE IF NoSelection(c.val)
                THEN /\ last' = Last("command", "ll_cmd", "none",
                                     NoLinesChoosed)
                     /\ cmd' = [NoCmd EXCEPT !.action = action, !.value = value]
                     /\ UNCHANGED <<interactive, pc>>
                ELSE /\ last' = Last("command", "ll_cmd", "none",
                                     PyStr("[y/N]"))
                     /\ cmd' = [NoCmd EXCEPT !.lines = c.val,
                                             !.action = action, !.value = value]
                     /\ pc' = "prompt"
                     /\ UNCHANGED interactive

\* the handler returns (exc = "none") or raises out of run_until_complete
Return(exc) ==
    /\ pc' = "idle"
    /\ last' = [last EXCEPT !.exc = exc, !.died = exc # "none"]
    /\ interactive' = (interactive /\ exc = "none")

\* lines 424-426 / 432-434 and the asserts of lines 368 / 392
Answer ==
    /\ pc = "prompt"
    /\ \E resp \in Answers :
         /\ cmd' = [cmd EXCEPT !.resp = resp]
         /\ IF ~Accepted(resp) THEN Return("none")
            ELSE IF ~ValueOk(cmd.action, cmd.value) THEN Return("AssertionError")
            ELSE /\ pc' = "connect"
                 /\ UNCHANGED <<last, interactive>>
    /\ UNCHANGED <<store, ws, looked, commands, arguments, invoked, cacheLog, applied>>

\* websockets.connect(uri), lines 371 / 395
Connect ==
    /\ pc = "connect"
    /\ \E ok \in BOOLEAN :
         IF ok THEN /\ ws' = <<Event("connect")>>
                    /\ pc' = "auth_send"
                    /\ UNCHANGED <<last, interactive>>
         ELSE /\ ws' = ws
              /\ Return("ConnectionRefusedError")
    /\ UNCHANGED <<store, cmd, looked, commands, arguments, invoked, cacheLog, applied>>

\* a slip: the exception leaves the coroutine with the connection open
RaiseNoClose(exc) ==
    /\ cmd' = [cmd EXCEPT !.exc = exc]
    /\ pc' = "idle"

\* a slip: the exception is swallowed and the exchange goes on
RaiseAndGoOn(exc) ==
    /\ cmd' = [cmd EXCEPT !.exc = exc]
    /\ pc' = "cmd_send"

\* an exception inside "async with" leaves through the close of the
\* connection
Raise(exc) ==
    /\ cmd' = [cmd EXCEPT !.exc = exc]
    /\ pc' = "close"

\* _auth, lines 356-362
AuthSend ==
    /\ pc = "auth_send"
    /\ \E ok \in BOOLEAN :
         IF ok THEN /\ ws' = Append(ws, Sent(AuthReq))
                    /\ pc' = "auth_recv"
                    /\ cmd' = cmd
         ELSE /\ ws' = ws
              /\ Raise("ConnectionClosed")
    /\ UNCHANGED <<store, interactive, last, looked, commands, arguments,
                   invoked, cacheLog, applied>>

\* _auth, line 363, and the print of lines 372 / 396
AuthRecv ==
    /\ pc = "auth_recv"
    /\ \E reply \in Replies :
         CASE reply = "json" ->
                /\ ws' = Append(ws, Event("recv"))
                /\ pc' = "cmd_send"
                /\ cmd' = cmd
           [] reply = "not_json" ->
                /\ ws' = Append(ws, Event("recv"))
                /\ Raise("JSONDecodeError")
           [] reply = "dropped" ->
                /\ ws' = ws
                /\ Raise("ConnectionClosed")
    /\ UNCHANGED <<store, interactive, last, looked, commands, arguments,
                   invoked, cacheLog, applied>>

\* lines 373-387 / 397-410
CmdSend ==
    /\ pc = "cmd_send"
    /\ \E ok \in BOOLEAN :
         IF ~ObjectsOk(cmd.lines)
         THEN /\ ws' = ws
              /\ Raise("TypeError")
         ELSE IF ok
         THEN /\ ws' = Append(ws, Sent(CmdMsg(cmd)))
              /\ pc' = "cmd_recv"
              /\ cmd' = cmd
         ELSE /\ ws' = ws
              /\ Raise("ConnectionClosed")
    /\ UNCHANGED <<store, interactive, last, looked, commands, arguments,
                   invoked, cacheLog, applied>>

\* lines 388 / 411
CmdRecv ==
    /\ pc = "cmd_recv"
    /\ \E reply \in Replies :
         CASE reply = "json" ->
                /\ ws' = Append(ws, Event("recv"))
                /\ Raise("none")
           [] reply = "not_json" ->
                /\ ws' = Append(ws, Event("recv"))
                /\ Raise("JSONDecodeError")
           [] reply = "dropped" ->
                /\ ws' = ws
                /\ Raise("ConnectionClosed")
    /\ UNCHANGED <<store, interactive, last, looked, commands, arguments,
                   invoked, cacheLog, applied>>

\* the exit of "async with websockets.connect(uri) as ws"
Close ==
    /\ pc = "close"
    /\ ws' = Append(ws, Event("close"))
    /\ Return(cmd.exc)
    /\ UNCHANGED <<store, cmd, looked, commands, arguments, invoked, cacheLog, applied>>

-----------------------------------------------------------------------------
(* The client: any sequence of invocations and shell sessions *)

\* no process is running, nothing was typed yet
Idle ==
    /\ interactive = FALSE
    /\ pc = "idle"
    /\ cmd = NoCmd
    /\ ws = <<>>
    /\ last = Last("start", "None", "none", None)
    /\ looked = None

NotDispatched == [done |-> FALSE, ran |-> <<>>, out |-> None]

NoCacheCall == [op |-> "none", key |-> "", arg |-> None, before |-> "missing",
                exc |-> "none", ret |-> None, written |-> EmptyDict]

\* apply_line_filters_and_sorting was not called
NotApplied == [done |-> FALSE, lines |-> <<>>, sort_by |-> NoArg,
               group_id |-> NoArg, req_filter |-> NoArg, exc |-> "none",
               val |-> <<>>]

Init ==
    /\ Idle
    /\ store \in {NoFile, CorruptFile}
    /\ commands = CommandTable
    /\ arguments = [k \in Tokens |-> PyBool(FALSE)]
    /\ invoked = NotDispatched
    /\ cacheLog = NoCacheCall
    /\ applied = NotApplied

Next ==
    \/ ConfigList
    \/ ConfigSet
    \/ LlList
    \/ LlStatus
    \/ LlShow
    \/ LlGroupsList
    \/ ShowLast
    \/ Unknown
    \/ Malformed
    \/ StartShell
    \/ Quit
    \/ LlCmd
    \/ Answer
    \/ Connect
    \/ AuthSend
    \/ AuthRecv
    \/ CmdSend
    \/ CmdRecv
    \/ Close

Spec == Init /\ [][Next]_vars

-----------------------------------------------------------------------------
(* The cache alone: any sequence of Cache.set and Cache.get calls *)

\* the longest list stored in a slot
MaxItems == 1

CacheSlots == {"ll", "a", "b"}

CacheValues ==
    {PyStr("v"), PyStr("w")}
    \cup {PyList([i \in 1..n |-> LineA]) : n \in 0..MaxItems}

\* the default handed to Cache.get (None when none is given)
Defaults == {None, NothingToShow}

\* cacheLog.written remembers the last value each slot was given
SetCall ==
    \E key \in CacheSlots, value \in CacheValues :
        LET r == CacheSet(store, key, value)
        IN  /\ store' = r.file
            /\ cacheLog' = [op |-> "set", key |-> key, arg |-> value,
                            before |-> store.st, exc |-> r.exc, ret |-> None,
                            written |-> IF r.exc = "none"
                                        THEN [k \in DOMAIN cacheLog.written
                                                    \cup {key} |->
                                                IF k = key THEN value
                                                ELSE cacheLog.written[k]]
                                        ELSE cacheLog.written]
            /\ UNCHANGED <<interactive, pc, cmd, ws, last, looked, commands,
                           arguments, invoked, applied>>

GetCall ==
    \E key \in CacheSlots, default \in Defaults :
        LET r == CacheGet(store, key, default)
        IN  /\ cacheLog' = [cacheLog EXCEPT !.op = "get", !.key = key,
                                            !.arg = default,
                                            !.before = store.st,
                                            !.exc = r.exc, !.ret = r.val]
            /\ UNCHANGED <<store, interactive, pc, cmd, ws, last, looked,
                           commands, arguments, invoked, applied>>

NextCache == SetCall \/ GetCall

SpecCache == Init /\ [][NextCache]_vars

-----------------------------------------------------------------------------
(* The dispatcher alone: determine_command over any table *)

\* the longest command table
MaxTable == 3

n_A == <<"A">>
n_AB == <<"A", ".", "B">>
n_B == <<"B">>
n_BC == <<"B", ".", "C">>

Names == {n_A, n_AB, n_B, n_BC}

\* the handler of each name is named after it
HandlerOf(name) ==
    CASE name = n_A -> "A" [] name = n_AB -> "A.B" [] name = n_B -> "B"
      [] name = n_BC -> "B.C"

\* the tables of at most MaxTable commands, no name twice
Tables ==
    {t \in UNION {[1..n -> Names] : n \in 0..MaxTable} :
        \A i, j \in 1..Len(t) : i # j => t[i] # t[j]}

ArgValues == {PyBool(TRUE), PyBool(FALSE), None, PyStr("x"), PyStr("")}

\* the argument dictionaries over the keys A, B, C
ArgDicts ==
    UNION {[keys -> ArgValues] : keys \in SUBSET {<<"A">>, <<"B">>, <<"C">>}}

InitDispatch ==
    /\ Idle
    /\ store = NoFile
    /\ cacheLog = NoCacheCall
    /\ applied = NotApplied
    /\ commands \in {[i \in 1..Len(t) |-> Command(t[i], HandlerOf(t[i]))] :
                       t \in Tables}
    /\ arguments \in ArgDicts
    /\ invoked = NotDispatched

\* dispatch_command, lines 473-477
Dispatch ==
    /\ ~invoked.done
    /\ LET command == determine_command(commands, arguments)
       IN  invoked' = IF command # "None"
                      THEN [done |-> TRUE, ran |-> <<command>>, out |-> None]
                      ELSE [done |-> TRUE, ran |-> <<>>, out |-> UnknownCommand]
    /\ UNCHANGED <<store, interactive, pc, cmd, ws, last, looked, commands,
                   arguments, cacheLog, applied>>

NextDispatch == Dispatch

SpecDispatch == InitDispatch /\ [][NextDispatch]_vars

-----------------------------------------------------------------------------
(* The filter/sort engine alone: apply_line_filters_and_sorting over any    *)
(* line collection                                                          *)

\* the longest line collection
MaxLines == 3

\* a third line: its id sorts first as a number, its name last
LineC == [t |-> "line", id |-> <<"a">>, name |-> <<"b", "a">>, lat |-> 0,
          lng |-> 0, in_maintenance |-> TRUE, groups |-> {2}]

ApplyLines == {LineA, LineB, LineC}

LineCollections == UNION {[1..n -> ApplyLines] : n \in 0..MaxLines}

\* sort_by: 'id' (the default of the handlers) or the field 'name'
ApplySorts == {<<"i", "d">>, <<"n", "a", "m", "e">>}

\* group_id: None, two group ids, and a value that is no integer
ApplyGroups == {NoArg, <<"1">>, <<"2">>, <<"x">>}

\* req_filter: None, the maintenance filters, substring filters, a filter
\* whose expression is unknown and one without its ':'
ApplyFilters ==
    {NoArg, <<"m", ":", "t">>, <<"m", ":", "f">>, <<"m", ":", "F">>,
     <<"i", "d", ":", "1">>, <<"n", "a", "m", "e", ":", "a">>,
     <<"m", ":", "z">>, <<"m", "t">>}

InitApply ==
    /\ Idle
    /\ store = NoFile
    /\ commands = CommandTable
    /\ arguments = [k \in Tokens |-> PyBool(FALSE)]
    /\ invoked = NotDispatched
    /\ cacheLog = NoCacheCall
    /\ applied \in {[NotApplied EXCEPT !.lines = l, !.sort_by = s,
                                       !.group_id = g, !.req_filter = f] :
                      l \in LineCollections, s \in ApplySorts,
                      g \in ApplyGroups, f \in ApplyFilters}

\* one call of apply_line_filters_and_sorting
Apply ==
    /\ ~applied.done
    /\ LET r == apply_line_filters_and_sorting(
                    PyList(applied.lines), applied.sort_by, applied.group_id,
                    applied.req_filter)
       IN  applied' = [applied EXCEPT !.done = TRUE, !.exc = r.exc,
                                      !.val = r.val]
    /\ UNCHANGED <<store, interactive, pc, cmd, ws, last, looked, commands,
                   arguments, invoked, cacheLog>>

NextApply == Apply

SpecApply == InitApply /\ [][NextApply]_vars

-----------------------------------------------------------------------------
(* ll cmd alone, over a cache that holds a selection.  run_until_complete   *)
(* drives the coroutine until it returns or raises, and every await ends    *)
(* when the peer answers or the transport fails: the steps of the session   *)
(* are taken whenever they can be.                                          *)

\* the selections an earlier ll list / ll status has left in the cache
Selections == {PyList(<<>>), PyList(<<LineA>>), PyList(<<LineB, LineA>>)}

InitSession ==
    /\ Idle
    /\ store \in {CacheSet(NoFile, "last_choosed_ll", sel).file :
                    sel \in Selections}
    /\ commands = CommandTable
    /\ arguments = [k \in Tokens |-> PyBool(FALSE)]
    /\ invoked = NotDispatched
    /\ cacheLog = NoCacheCall
    /\ applied = NotApplied

NextSession ==
    \/ StartShell
    \/ LlCmd
    \/ Answer
    \/ Connect
    \/ AuthSend
    \/ AuthRecv
    \/ CmdSend
    \/ CmdRecv
    \/ Close

SpecSession ==
    /\ InitSession
    /\ [][NextSession]_vars
    /\ WF_vars(AuthSend)
    /\ WF_vars(AuthRecv)
    /\ WF_vars(CmdSend)
    /\ WF_vars(CmdRecv)
    /\ WF_vars(Close)

-----------------------------------------------------------------------------
(* The query commands and show, over a backend whose lines change between  *)
(* commands                                                                 *)

\* api/v1/lighting-line at different times: both lines, then line B removed
BackendLines == LinesAnswers \cup {PyList(<<LineA>>)}

InitBackend ==
    /\ Idle
    /\ store = NoFile
    /\ commands = CommandTable
    /\ arguments = [k \in Tokens |-> PyBool(FALSE)]
    /\ invoked = NotDispatched
    /\ cacheLog = NoCacheCall
    /\ applied = NotApplied

\* ll list, whatever the backend holds at that time
LlListNow ==
    /\ pc = "idle"
    /\ \E a \in ArgvOf("ll_list"), lines \in BackendLines :
           Finish("ll_list", a, ll_list(store, a.opt, lines), lines)

\* ll status, whatever the backend holds at that time
LlStatusNow ==
    /\ pc = "idle"
    /\ \E a \in ArgvOf("ll_status"),
          lines \in (IF LinesAsked(store) = {None} THEN {None}
                     ELSE BackendLines) :
       \E lines_status \in StatusAsked(store, lines) :
           Finish("ll_status", a, ll_status(store, a.opt, lines, lines_status),
                  lines_status)

\* ll show, llgr list and show run between the queries
NextBackend ==
    LlListNow \/ LlStatusNow \/ LlShow \/ LlGroupsList \/ ShowLast

SpecBackend == InitBackend /\ [][NextBackend]_vars

-----------------------------------------------------------------------------
(* Properties of ll cmd and of the Control Channel session (Spec) *)

\* the slot is not in the cache file: no file, or a pickled dict without it
SlotAbsent(f, slot) ==
    \/ f.st = "missing"
    \/ f.st = "ok" /\ \A i \in 1..Len(f.entries) : f.entries[i].k # slot

\* the step starts an ll cmd (every other command clears cmd)
StartsLlCmd == pc = "idle" /\ cmd'.action # "-"

\* C1: an ll cmd (--relay or --mode) that finds no slot 'last_choosed_ll'
\* prints 'No lines choosed' and returns: it shows no prompt, opens no
\* connection and sends nothing.
C1_NoSelection ==
    [][(StartsLlCmd /\ SlotAbsent(store, "last_choosed_ll"))
         => /\ last'.out = NoLinesChoosed
            /\ last'.exc = "none"
            /\ pc' = "idle"
            /\ cmd'.resp = NoArg
            /\ ws' = <<>>]_vars

C1_Witness ==
    /\ last.handler = "ll_cmd"
    /\ last.out = NoLinesChoosed
    /\ cmd.action = "relay"
    /\ store.st = "ok"
    /\ pc = "idle"

SentEvents == {i \in 1..Len(ws) : ws[i].ev = "send"}

Declined == cmd.resp \notin {NoArg, <<"y">>, <<"Y">>}

\* C2: when the answer to the [y/N] prompt is neither 'y' nor 'Y', the
\* command is over and nothing was sent for it, neither the auth request
\* nor a command message, for --relay and for --mode.
C2_DeclinedSendsNothing ==
    Declined => (pc = "idle" /\ SentEvents = {} /\ last.exc = "none")

C2_Witness ==
    /\ cmd.resp = <<"y", "e", "s">>
    /\ cmd.action = "mode"
    /\ cmd.lines # None
    /\ pc = "idle"

\* what an event of the session is, for the order of the exchange
EventKind(e) ==
    IF e.ev # "send" THEN e.ev
    ELSE IF e.msg.proto = "authReq" THEN "send_auth" ELSE "send_cmd"

Exchange == <<"connect", "send_auth", "recv", "send_cmd", "recv", "close">>

SessionKinds == [i \in 1..Len(ws) |-> EventKind(ws[i])]

\* C3: the events of a session are, in this order, connect, one auth
\* request, one reply, one command message, one reply, close; a session cut
\* short stops at some point of that order and closes.  So no command
\* message precedes the auth reply and none follows the command message,
\* and a session that ends without an exception went through all six.
C3_SessionOrder ==
    /\ \E n \in 0..Len(Exchange) :
          \/ SessionKinds = SubSeq(Exchange, 1, n)
          \/ n >= 1 /\ SessionKinds = Append(SubSeq(Exchange, 1, n), "close")
    /\ (pc = "idle" /\ ws # <<>> /\ last.exc = "none") => SessionKinds = Exchange

C3_Witness ==
    /\ pc = "idle"
    /\ SessionKinds = Exchange
    /\ last.exc = "none"

CommandsSent == {i \in SentEvents : ws[i].msg.proto # "authReq"}

\* C4: a command message sent by a confirmed ll cmd targets exactly the
\* lines that the most recent successful ll list or ll status showed: the
\* same ids in the same order, whatever commands ran or failed in between.
C4_TargetsAreTheLinesShown ==
    \A i \in CommandsSent :
        /\ looked # None
        /\ [j \in 1..Len(ws[i].msg.objects) |-> ws[i].msg.objects[j].id]
             = looked.items

-----------------------------------------------------------------------------
(* Properties of the dispatcher (SpecDispatch) *)

\* the tokens of a command name, and what makes an argument count
NameTokens(name) ==
    CASE name = n_A -> {<<"A">>}
      [] name = n_AB -> {<<"A">>, <<"B">>}
      [] name = n_B -> {<<"B">>}
      [] name = n_BC -> {<<"B">>, <<"C">>}

PresentAndTruthy(key) ==
    key \in DOMAIN arguments /\ arguments[key] \in {PyBool(TRUE), PyStr("x")}

Satisfied(i) == \A key \in NameTokens(commands[i].name) : PresentAndTruthy(key)

FirstSatisfied(i) ==
    i \in 1..Len(commands) /\ Satisfied(i) /\ \A j \in 1..(i - 1) : ~Satisfied(j)

\* C5: dispatch runs exactly one handler, that of the first command in table
\* order whose every dot-separated token is present and truthy in the
\* arguments (for the table [A.B, A] and arguments with A and B, the handler
\* of A.B); when no command matches it runs none and reports 'unknown
\* command'.
C5_FirstMatchRuns ==
    invoked.done =>
        IF \E i \in 1..Len(commands) : Satisfied(i)
        THEN /\ \E i \in 1..Len(commands) :
                   FirstSatisfied(i) /\ invoked.ran = <<commands[i].handler>>
             /\ invoked.out # UnknownCommand
        ELSE invoked.ran = <<>> /\ invoked.out = UnknownCommand

C5_Witness ==
    /\ invoked.done
    /\ Len(commands) = 2
    /\ commands[1].name = n_AB
    /\ commands[2].name = n_A
    /\ PresentAndTruthy(<<"A">>)
    /\ PresentAndTruthy(<<"B">>)
    /\ invoked.ran = <<"A.B">>

-----------------------------------------------------------------------------
(* Properties of the cache (SpecCache) *)

\* C6: a Cache.get that follows a Cache.set of the same slot returns the
\* value last written to it, and a Cache.get of a slot never set returns
\* the default it was given (None when none is given).
C6_RoundTrip ==
    (cacheLog.op = "get" /\ cacheLog.exc = "none") =>
        cacheLog.ret = IF cacheLog.key \in DOMAIN cacheLog.written
                       THEN cacheLog.written[cacheLog.key]
                       ELSE cacheLog.arg

C6_Witness ==
    /\ cacheLog.op = "get"
    /\ cacheLog.key = "a"
    /\ DOMAIN cacheLog.written = {"a", "b", "ll"}
    /\ cacheLog.ret = PyStr("w")
    /\ cacheLog.written["b"] = PyStr("v")

\* C7: with the cache file missing or corrupt, Cache.get and Cache.set go on
\* as if the store were empty: get returns the default and set leaves a
\* store that holds the written slot alone.
C7_MissingOrCorruptIsEmpty ==
    (cacheLog.op # "none" /\ cacheLog.before \in {"missing", "corrupt"}) =>
        /\ cacheLog.exc = "none"
        /\ cacheLog.op = "get" => cacheLog.ret = cacheLog.arg
        /\ cacheLog.op = "set" =>
               store = File(<<[k |-> cacheLog.key, v |-> cacheLog.arg]>>)

-----------------------------------------------------------------------------
(* Properties of the error handling (Spec) *)

\* C8: when the backend answers ll list, ll status or llgr list with an
\* error object instead of a list, the command prints that object as it is
\* and returns without raising.
C8_ErrorObjectIsPrinted ==
    (last.handler \in {"ll_list", "ll_status", "ll_groups_list"}
       /\ last.answer = "dict")
      => (last.exc = "none" /\ last.out = ErrorObject)

\* C9: the shell never crashes: whatever a line other than 'exit', 'quit' or
\* the quit-escape does (usage error, unknown command, failure inside the
\* handler), the loop is still running when the line is done.
C9_ShellGoesOn ==
    [][(interactive /\ pc' = "idle" /\ last'.input # "quit")
         => interactive']_vars

\* C10: a filter without its ':' (ll list, ll status) and an ll show that
\* matches no record fail the command only: the ValueError of the unpacking
\* is caught at the handler boundary and does not end the process.
C10_UnpackErrorIsCaught ==
    (last.handler \in {"ll_list", "ll_status", "ll_show"}
       /\ last.exc = "ValueError: unpack")
      => ~last.died

-----------------------------------------------------------------------------
(* Properties of the line snapshots and of the cache slots (Spec) *)

\* the step runs handler h to its end (every command starts and ends idle
\* but ll cmd, which may stop at its prompt)
Runs(h) == pc = "idle" /\ pc' = "idle" /\ last'.handler = h

\* C11: every run of ll list, ll status and ll show asks the backend for the
\* lines during that run, so the lines it filters and shows are never a
\* collection an earlier command left in the slot 'll'.  (ll_list asks
\* unconditionally, line 236; a run that cannot read the cache file ends
\* before it asks for anything.)
C11_LinesFetchedFresh ==
    [][((Runs("ll_status") \/ Runs("ll_show")) /\ store.st # "corrupt")
         => LinesAsked(store) = LinesAnswers]_vars

-----------------------------------------------------------------------------
(* Properties of the filter/sort engine (SpecApply) *)

f_mt == <<"m", ":", "t">>

f_mf == <<"m", ":", "f">>

\* how many times line l occurs in seq
Count(seq, l) == Cardinality({i \in 1..Len(seq) : seq[i] = l})

\* the same call with another filter and no group
AppliedWith(req_filter) ==
    apply_line_filters_and_sorting(PyList(applied.lines), applied.sort_by,
                                   NoArg, req_filter).val

\* C12: with no group, the filter 'm:t' returns exactly the lines whose
\* maintenance flag is true and 'm:f' exactly those whose flag is false:
\* the two results partition the collection.
C12_MaintenancePartition ==
    (applied.done /\ applied.group_id = NoArg
       /\ applied.req_filter \in {f_mt, f_mf})
      => /\ applied.exc = "none"
         /\ \A l \in ApplyLines :
              Count(applied.val, l) =
                 IF l.in_maintenance = (applied.req_filter = f_mt)
                 THEN Count(applied.lines, l) ELSE 0
         /\ \A l \in ApplyLines :
              Count(AppliedWith(f_mt), l) + Count(AppliedWith(f_mf), l)
                 = Count(applied.lines, l)

C12_Witness ==
    /\ applied.done
    /\ applied.group_id = NoArg
    /\ applied.req_filter = f_mt
    /\ applied.sort_by = <<"i", "d">>
    /\ applied.lines = <<LineB, LineA, LineC>>
    /\ applied.val = <<LineC, LineA>>

\* what each filter of ApplyFilters asks of a line
FilterHolds(l, req_filter) ==
    CASE req_filter = f_mt -> l.in_maintenance
      [] req_filter \in {f_mf, <<"m", ":", "F">>} -> ~l.in_maintenance
      [] req_filter = <<"i", "d", ":", "1">> ->
            \E i \in 1..Len(l.id) : l.id[i] = "1"
      [] req_filter = <<"n", "a", "m", "e", ":", "a">> ->
            \E i \in 1..Len(l.name) : l.name[i] = "a"
      [] OTHER -> TRUE

GroupNo(group_id) == IF group_id = <<"1">> THEN 1 ELSE 2

\* the call has a filter with its ':' and a group id that is an integer
WellFormed ==
    /\ applied.req_filter # <<"m", "t">>
    /\ applied.group_id \in {NoArg, <<"1">>, <<"2">>}

\* line l is to be kept by the call
Kept(l) ==
    /\ FilterHolds(l, applied.req_filter)
    /\ applied.group_id = NoArg \/ GroupNo(applied.group_id) \in l.groups

\* C13: for every collection, filter and integer group id the result holds
\* exactly the lines that satisfy the filter and whose groups contain the
\* group id; with no group id the filter alone decides.
C13_GroupAndFilter ==
    (applied.done /\ WellFormed)
      => /\ applied.exc = "none"
         /\ \A l \in ApplyLines :
              Count(applied.val, l) =
                 IF Kept(l) THEN Count(applied.lines, l) ELSE 0

C13_Witness ==
    /\ applied.done
    /\ applied.group_id = <<"2">>
    /\ applied.req_filter = f_mt
    /\ applied.lines = <<LineA, LineB, LineC>>
    /\ applied.val = <<LineC>>

\* C17: with a sort field other than 'id' the sort changes nothing: the
\* result is the kept lines in the order of the input.  With 'id' the
\* result is the kept lines in ascending order of their identifiers.  In
\* both cases it is a subsequence of the sorted collection.
C17_SortKeepsOrder ==
    (applied.done /\ WellFormed)
      => /\ applied.sort_by # <<"i", "d">>
              => applied.val = SelectSeq(applied.lines, Kept)
         /\ applied.sort_by = <<"i", "d">>
              => \A i, j \in 1..Len(applied.val) :
                    i < j => UUID(applied.val[i].id) <= UUID(applied.val[j].id)
         /\ \A l \in ApplyLines :
              Count(applied.val, l) <= Count(applied.lines, l)

C17_Witness ==
    /\ applied.done
    /\ applied.sort_by = <<"n", "a", "m", "e">>
    /\ applied.req_filter = NoArg
    /\ applied.group_id = NoArg
    /\ applied.lines = <<LineC, LineA, LineB>>
    /\ applied.val = <<LineC, LineA, LineB>>

-----------------------------------------------------------------------------
(* Properties of the values of ll cmd and of the session's end (SpecSession) *)

Confirmed == cmd.resp \in {<<"y">>, <<"Y">>}

\* the relay and mode values the handlers take
GoodValues ==
    IF cmd.action = "relay"
    THEN {<<"o", "n">>, <<"O", "N">>, <<"O", "n">>, <<"o", "N">>,
          <<"o", "f", "f">>, <<"O", "F", "F">>}
    ELSE {<<"a", "u", "t", "o", ":", "s", "c", "h">>,
          <<"m", "a", "n", "u", "a", "l">>}

\* C14: a confirmed ll cmd whose relay value is not 'on' / 'off' (in any
\* case) or whose mode is not 'auto:sch' / 'manual' fails at once: the
\* command raises before a connection is opened and nothing is sent.
C14_BadValueFailsFast ==
    (Confirmed /\ cmd.value \notin GoodValues)
      => (pc = "idle" /\ ws = <<>> /\ last.exc = "AssertionError" /\ last.died)

C14_Witness ==
    /\ Confirmed
    /\ cmd.action = "mode"
    /\ cmd.value = <<"a", "u", "t", "o">>
    /\ last.exc = "AssertionError"
    /\ pc = "idle"

\* a connection is open: the session has begun and its last event is not
\* the close
Open == ws # <<>> /\ ws[Len(ws)].ev # "close"

Closed == ws # <<>> /\ ws[Len(ws)].ev = "close" /\ pc = "idle"

AuthReplied == Len(ws) >= 3 /\ ws[3].ev = "recv"

\* C16: whatever the reply to the auth request holds, the client shows it
\* and goes on to send the command message: once the reply is received the
\* command message is about to be sent or was sent, or the session ended
\* for a reason other than the content of the reply.
C16_AnyAuthReplyGoesOn ==
    AuthReplied =>
        \/ pc = "cmd_send"
        \/ Len(ws) >= 4 /\ ws[4].ev = "send"
        \/ cmd.exc \in {"ConnectionClosed", "TypeError"}

-----------------------------------------------------------------------------
(* Properties of the cache slots the commands write (Spec, SpecBackend) *)

\* what the slot holds in the cache file; None when the slot or the file is
\* absent
SlotValue(f, slot) ==
    IF f.st = "ok" /\ \E i \in 1..Len(f.entries) : f.entries[i].k = slot
    THEN f.entries[CHOOSE i \in 1..Len(f.entries) : f.entries[i].k = slot].v
    ELSE None

IsLineList(v) ==
    IsList(v) /\ \A i \in 1..Len(v.items) : v.items[i].t = "line"

\* C18: whenever the slot 'll' is present it holds a list of line records;
\* no command stores an error object of the backend in it.
C18_RawLinesIsAList ==
    SlotValue(store, "ll") # None => IsLineList(SlotValue(store, "ll"))

\* C19: whenever the slots 'll' and 'last_choosed_ll' are both present, every
\* line of the selection is an element of the raw line list, also after
\* commands that failed part-way.
C19_SelectionWithinRawLines ==
    LET ll == SlotValue(store, "ll")
        sel == SlotValue(store, "last_choosed_ll")
    IN  (ll # None /\ sel # None)
          => \A i \in 1..Len(sel.items) :
                \E j \in 1..Len(Iter(ll)) : Iter(ll)[j] = sel.items[i]

ShowedSlots == {"last_showed", "last_showed_ll", "last_showed_ll_st",
                "last_showed_llgr"}

\* the family slot of each query command
FamilySlot(h) ==
    CASE h = "ll_list" -> "last_showed_ll"
      [] h = "ll_status" -> "last_showed_ll_st"
      [] h = "ll_groups_list" -> "last_showed_llgr"

\* the step is a query command that returns after printing its table
ShowsTable ==
    /\ \E h \in {"ll_list", "ll_status", "ll_groups_list"} : Runs(h)
    /\ last'.exc = "none"
    /\ last'.out.t = "tab"

\* C20: a query command that prints its table leaves that table in the
\* generic slot 'last_showed' and in the slot of its family, and the other
\* families as they were; every other step (a query command that gets a
\* payload that is no list or that fails, and every other command) changes
\* none of the 'last_showed*' slots.  As the slots are absent at first,
\* 'last_showed' is absent or the table of the most recent successful query.
C20_LastShowedIsLastTable ==
    [][IF ShowsTable
       THEN \A slot \in ShowedSlots :
               SlotValue(store', slot) =
                  IF slot \in {"last_showed", FamilySlot(last'.handler)}
                  THEN last'.out ELSE SlotValue(store, slot)
       ELSE \A slot \in ShowedSlots :
               SlotValue(store', slot) = SlotValue(store, slot)]_vars

C20_Witness ==
    /\ last.handler = "ll_groups_list"
    /\ last.exc = "none"
    /\ last.out.t = "tab"
    /\ SlotValue(store, "last_showed") = last.out
    /\ SlotValue(store, "last_showed_llgr") = last.out
    /\ SlotValue(store, "last_showed_ll") \notin {None, last.out}

====
